---- MODULE Spec2Model ----
(***************************************************************************)
(* Quota limiter of the IMEI simulator bot: the Redis daily counter        *)
(* (src/engines/rate_limit.py), the PostgreSQL log of IMEI queries and the *)
(* message handler that calls them (src/handlers/imei.py).                 *)
(*                                                                         *)
(* Every `await` of the handler is one atomic step of a handler process,   *)
(* so that concurrent handlers interleave exactly at the suspension points *)
(* of the code.  Time is the wall clock in milliseconds since 00:00:00 UTC *)
(* of day 0; it moves through a list of instants around a day boundary.    *)
(*                                                                         *)
(* Also modelled, each under a specification of its own: the IMEI          *)
(* validation (src/utils/imei.py), the time helpers, the fake-track engine *)
(* with its collaborators OSRM and Geoapify (src/engines/fake_tracking.py, *)
(* src/utils/geo.py) and the single-file bot with its in-memory limiter    *)
(* (src/bot.py).                                                           *)
(***************************************************************************)
EXTENDS Integers, Sequences, FiniteSets, Bags, TLC

\* ---------------------------------------------------------------- bounds
NumProcs == 2      \* handler coroutines that can be in flight together
NumUsers == 1      \* Telegram users
MaxEvents == 4     \* text messages that the bot receives
MaxClock == 3      \* how many of the Instants the clock visits
MaxTail == 2       \* free characters at the end of an examined text
NumDays == 2       \* calendar days of the examined datetimes
MaxTracks == 2     \* calls of generate_fake_track
MaxTexts == 5      \* text messages that the single-file bot receives

Procs == 1..NumProcs
Users == 1..NumUsers

\* ------------------------------------------------------------- constants
DAILY_LIMIT == 3
MsPerDay == 86400 * 1000
\* Wall-clock instants (ms): 12:00:00.000 and 23:59:59.950 of day 0, then
\* 00:00:00.000, 00:00:00.100 and 12:00:00.000 of day 1.
Instants == << 43200000, 86399950, 86400000, 86400100, 129600000 >>

\* Redis TTL sentinels and the representation of a missing key.
NoExpiry == 0 - 1
NoKey == [exists |-> FALSE, val |-> 0, expireAt |-> NoExpiry]

VARIABLES
    received,     \* number of text updates delivered to the bot so far
    clock,        \* index into Instants: utc_now()
    redis,        \* redis[u]: the key rate:user:<u>:daily
    users,        \* ids of the rows of table users
    queries,      \* bag of the rows of table imei_queries
    pc,           \* pc[p]: position of handler p
    user,         \* user[p]: update.effective_user.id
    today_start,  \* local today_start of check_rate_limit
    count_today,  \* local count_today of check_rate_limit
    remaining,    \* RateLimitStatus.remaining
    reset_in,     \* RateLimitStatus.reset_in_seconds
    allowed,      \* RateLimitStatus.allowed
    h_imei,       \* h_imei[p]: local imei of handler p, the validated text
    cache,        \* the Redis keys track:imei:<imei>, with value and expiry
    text,         \* argument of a call of is_valid_imei
    verdict,      \* what that call did: "True", "False" or the exception
    dt,           \* dt[i]: datetime given to the i-th call of _daily_seed
    seed,         \* seed[i]: the label that call returned
    hmac,         \* HMAC-SHA256 under SECRET_KEY: the digests computed so far
    rng,          \* rng[d]: what random.Random(d) has returned so far
    gen,          \* frame of the running call of generate_fake_track
    tracks,       \* the FakeTrackResults returned so far, in order
    bases,        \* the calls of _hash_to_base_coord with their results
    raised,       \* the calls of generate_fake_track that ended in an exception
    rate_limit_state,  \* src/bot.py: user_id -> {"date", "count"}
    checked,      \* src/bot.py: the calls of check_rate_limit, in order
    seconds_left  \* result of seconds_until_midnight_utc() at instant dt[1]

vars == << received, clock, redis, users, queries, pc, user, today_start,
           count_today, remaining, reset_in, allowed, h_imei, cache,
           text, verdict,
           dt, seed, seconds_left, hmac, rng, gen, tracks, bases, raised,
           rate_limit_state, checked >>

\* The state of the bot, and the arguments and results of the helper
\* functions that are examined on their own.
bot == << received, clock, redis, users, queries, pc, user, today_start,
          count_today, remaining, reset_in, allowed, h_imei, cache >>
imeiCall == << text, verdict >>
timeCall == << dt, seed, seconds_left >>
trackCall == << hmac, rng, gen, tracks, bases, raised >>
singleFile == << rate_limit_state, checked >>
pure == << imeiCall, timeCall, trackCall, singleFile >>

stores == << redis, users, queries, cache >>
env == << received, clock >>
status == << remaining, reset_in, allowed >>
locals == << user, today_start, count_today, remaining, reset_in, allowed,
            h_imei >>

\* ------------------------------------------------------------ time
utc_now == Instants[clock]

\* now.replace(hour=0, minute=0, second=0, microsecond=0)
DayStart(t) == t - (t % MsPerDay)

\* A countdown to the midnight at or after now: 0 at 00:00:00.000.
seconds_until_midnight_or_now(t) ==
    ((MsPerDay - (t % MsPerDay)) % MsPerDay) \div 1000

\* int((tomorrow - now).total_seconds())
seconds_until_midnight_utc(t) == ((DayStart(t) + MsPerDay) - t) \div 1000

Max(a, b) == IF a >= b THEN a ELSE b

\* A datetime: the instant it denotes (ms, UTC) and the UTC offset of its
\* tzinfo (ms); its own fields show the wall clock utc + offset.
Datetime(t, off) == [utc |-> t, offset |-> off]
WallClock(d) == d.utc + d.offset

\* now.strftime("%Y-%m-%d"): the calendar date of the datetime's own
\* fields, as the number of that day.
\* strftime does not convert to UTC.
_daily_seed(now) == WallClock(now) \div MsPerDay

\* Examined datetimes: times of day 00:00:00, 00:00:01, 12:00:00,
\* 23:59:59 and 23:59:59.950 on the days 1 .. NumDays, carried by a
\* tzinfo of UTC-05:00, UTC or UTC+05:30.
TimesOfDay == { 0, 1000, 43200000, 86399000, 86399950 }
UtcOffsets == { 0 - 18000000, 0, 19800000 }
Datetimes ==
    { Datetime(day * MsPerDay + tod, off) :
          day \in 1..NumDays, tod \in TimesOfDay, off \in UtcOffsets }
NoSeed == 0 - 1
NoSecs == 0 - 1

\* ------------------------------------------------------------ Redis
\* A key whose expiry time has passed is gone.
Live(r, t) == r.exists /\ (r.expireAt = NoExpiry \/ r.expireAt > t)
Purge(r, t) == IF Live(r, t) THEN r ELSE NoKey

\* TTL key: -2 missing, -1 no expiry, else the remaining seconds (rounded).
RedisTtl(r, t) ==
    IF ~Live(r, t) THEN 0 - 2
    ELSE IF r.expireAt = NoExpiry THEN 0 - 1
    ELSE ((r.expireAt - t) + 500) \div 1000

\* SET key value EX ex: replaces value and expiry whether or not the key
\* exists.  Redis rejects ex <= 0 ("invalid expire time in 'set' command").
RedisSetOk(ex) == ex > 0
RedisSet(v, ex, t) == [exists |-> TRUE, val |-> v, expireAt |-> t + ex * 1000]

\* INCR key: atomic; a missing key counts as 0 and is created with no expiry.
RedisIncr(r, t) ==
    IF Live(r, t) THEN [r EXCEPT !.val = r.val + 1]
    ELSE [exists |-> TRUE, val |-> 1, expireAt |-> NoExpiry]

\* EXPIRE key seconds: no effect on a missing key; seconds <= 0 deletes it.
RedisExpire(r, secs, t) ==
    IF ~Live(r, t) THEN NoKey
    ELSE IF secs <= 0 THEN NoKey
    ELSE [r EXCEPT !.expireAt = t + secs * 1000]

\* ------------------------------------------------------------ PostgreSQL
\* The table imei_queries is a bag of rows [user_id, imei_prefix,
\* created_at].
Row(u, prefix, t) == [user_id |-> u, imei_prefix |-> prefix, created_at |-> t]
Copies(rows, r) == IF r \in DOMAIN rows THEN rows[r] ELSE 0
NumRows(rows) == BagCardinality(rows)

RECURSIVE SumCopies(_, _)
SumCopies(rows, rs) ==
    IF rs = {} THEN 0
    ELSE LET r == CHOOSE x \in rs : TRUE
         IN  Copies(rows, r) + SumCopies(rows, rs \ {r})

\* select count(*) from imei_queries where user_id = u and created_at >= since
CountSince(rows, u, since) ==
    SumCopies(rows, { r \in DOMAIN rows :
                          r.user_id = u /\ r.created_at >= since })

\* db.add(row); db.commit()
Insert(rows, r) == rows (+) SetToBag({r})

\* ------------------------------------------------------------ IMEI text
\* A string is a sequence of code points.  The characters that the texts
\* are made of: the ASCII digits, a letter, a blank, ARABIC-INDIC DIGIT
\* THREE (a decimal digit that is not ASCII) and SUPERSCRIPT TWO (a digit
\* for str.isdigit, not a decimal digit for int).
AsciiDigits == 48..57
LetterX == 88
Blank == 32
ArabicIndicDigits == 1632..1641
ArabicThree == 1635
SuperscriptTwo == 178
Alphabet == AsciiDigits \union {LetterX, Blank, ArabicThree, SuperscriptTwo}

\* str.isdecimal, str.isdigit and str.isspace of one character.
isdecimal(c) == c \in AsciiDigits \/ c \in ArabicIndicDigits
isdigit(c) == isdecimal(c) \/ c \in {178, 179, 185}
isspace(c) == c = Blank

\* int(ch): the value of a decimal digit; ValueError for any other character.
int(c) == IF c \in AsciiDigits THEN c - 48 ELSE c - 1632

\* The contribution of the digit at position i, counted from the right.
LuhnDigit(i, digit) ==
    IF i % 2 = 1
    THEN IF digit * 2 > 9 THEN digit * 2 - 9 ELSE digit * 2
    ELSE digit

\* for i, ch in enumerate(reversed(imei)): ... total += digit
RECURSIVE LuhnTotal(_, _)
LuhnTotal(imei, i) ==
    IF i >= Len(imei) THEN 0
    ELSE LuhnDigit(i, int(imei[Len(imei) - i])) + LuhnTotal(imei, i + 1)

\* is_valid_imei(imei): "True", "False", or "ValueError" when int(ch) raises.
is_valid_imei(imei) ==
    IF Len(imei) # 15 \/ ~(\A k \in 1..Len(imei) : isdigit(imei[k]))
    THEN "False"
    ELSE IF \E k \in 1..Len(imei) : ~isdecimal(imei[k])
    THEN "ValueError"
    ELSE IF LuhnTotal(imei, 0) % 10 = 0 THEN "True" ELSE "False"

\* str.strip(): leading and trailing white space removed.
RECURSIVE strip(_)
strip(s) ==
    IF s = << >> THEN s
    ELSE IF isspace(Head(s)) THEN strip(Tail(s))
    ELSE IF isspace(s[Len(s)]) THEN strip(SubSeq(s, 1, Len(s) - 1))
    ELSE s

\* The IMEI of the repository's test, "490154203237518" (Luhn-valid).
TestImei == << 52, 57, 48, 49, 53, 52, 50, 48, 51, 50, 51, 55, 53, 49, 56 >>

\* Texts under examination: a prefix of the test IMEI followed by up to
\* MaxTail characters of the alphabet.
PrefixLens == {0, 4, 12, 13, 14, 15}
RECURSIVE Tails(_)
Tails(n) ==
    IF n = 0 THEN { << >> }
    ELSE LET shorter == Tails(n - 1) IN
         shorter \union
             { Append(s, c) : s \in { x \in shorter : Len(x) = n - 1 },
                              c \in Alphabet }
Texts == { SubSeq(TestImei, 1, k) \o tl : k \in PrefixLens, tl \in Tails(MaxTail) }

\* mask_imei: prefix = imei[:8]; return prefix + "********"
Asterisk == 42
mask_imei(id) ==
    SubSeq(id, 1, IF Len(id) < 8 THEN Len(id) ELSE 8)
        \o << Asterisk, Asterisk, Asterisk, Asterisk,
              Asterisk, Asterisk, Asterisk, Asterisk >>

\* cache_key = f"track:imei:{imei}"
TrackImeiPrefix == << 116, 114, 97, 99, 107, 58, 105, 109, 101, 105, 58 >>
CacheKey(id) == TrackImeiPrefix \o id

\* await redis.set(cache_key, "1", ex=3600): the key is replaced.
CACHE_TTL == 3600
CacheSet(entries, key, t) ==
    { c \in entries : c.key # key } \union
        { [key |-> key, val |-> << 49 >>, expireAt |-> t + CACHE_TTL * 1000] }
CachePurge(entries, t) == { c \in entries : c.expireAt > t }

\* ------------------------------------------------------------ fake track
\* The identifiers that tracks are asked for.
OtherImei == << 51, 53, 54, 57, 51, 56, 48, 51, 53, 54, 52, 51, 56, 48, 57 >>
Imeis == { TestImei, OtherImei }

\* (imei + seed).encode("utf-8"): the characters of the identifier followed
\* by the date string, which is written as the number of its day.
Message(imei, seed_str) == imei \o << seed_str >>

\* HMAC-SHA256 is a fixed function of key and message whose values are not
\* known: a digest is chosen when a message is hashed for the first time
\* and is the same ever after.  Of a digest, lat and lon are the fractions
\* int.from_bytes(digest[:8]) / 2**64 and int.from_bytes(digest[8:16]) /
\* 2**64 in thousandths; the division rounds the largest integers to 1.0.
FracDen == 1000
DigestSamples ==
    { [lat |-> 500, lon |-> 250],
      [lat |-> FracDen, lon |-> FracDen] }

\* Coordinates are in thousandths of a degree.
\* lat = (lat_int / 2**64) * 170.0 - 85.0; lon = (lon_int / 2**64) * 360.0 - 180.0
_hash_to_base_coord(digest) ==
    [lat |-> (digest.lat * 170000) \div FracDen - 85000,
     lon |-> (digest.lon * 360000) \div FracDen - 180000]

\* random.Random(seed_int) is a fixed stream per digest whose values are
\* not known either.  A value of rnd.random() is written in thousandths.
\* The ten values behind the five (dlat, dlon) pairs are one of the
\* OffsetStreams: all at the low end, or spread up to the high end.
OffsetStreams ==
    << << 0, 0, 0, 0, 0, 0, 0, 0, 0, 0 >>,
       << 0, 995, 250, 750, 500, 500, 750, 250, 995, 0 >> >>

\* (rnd.random() - 0.5) * 0.6
Offset(u) == ((u - 500) * 600) \div FracDen

\* coords.append((base_lat + dlat, base_lon + dlon)), five times.
Coords(base, draws) ==
    [k \in 1..5 |-> [lat |-> base.lat + Offset(draws[2 * k - 1]),
                     lon |-> base.lon + Offset(draws[2 * k])]]

\* Values behind rnd.uniform and rnd.randint: both ends of the range.
TimeDraws == { 0, 999 }
MinuteMs == 60 * 1000

\* timedelta(hours=rnd.uniform(0, 4)), timedelta(hours=rnd.uniform(2, 6))
\* and timedelta(minutes=rnd.randint(0, 60))
FirstOffset(u) == ((240 * u) \div FracDen) * MinuteMs
Gap(u) == (120 + (240 * u) \div FracDen) * MinuteMs
\* A pull-back of up to three hours: further than the shortest gap.
BackoffLong(u) == ((181 * u) \div FracDen) * MinuteMs
Backoff(u) == ((61 * u) \div FracDen) * MinuteMs

\* A loop that never pulls a time back.
ClampedNever(current_time, now) == FALSE

\* if current_time > now
Clamped(current_time, now) == current_time > now

\* The loop over the five coordinates, for every value the generator can
\* return in it: the set of the possible outcomes, each with the timestamps
\* in the order of the coordinates and the values taken from the generator.
\* The gap drawn after the fifth point is read by nobody and is left out.
RECURSIVE Timestamps(_, _, _, _, _)
Timestamps(k, current_time, now, taken, acc) ==
    LET stamps ==
            IF Clamped(current_time, now)
            THEN { [stamp |-> now - Backoff(b), taken |-> Append(taken, b)] :
                       b \in TimeDraws }
            ELSE { [stamp |-> current_time, taken |-> taken] }
    IN  IF k = 5
        THEN { [times |-> Append(acc, x.stamp), taken |-> x.taken] :
                   x \in stamps }
        ELSE UNION { Timestamps(k + 1, x.stamp + Gap(g), now,
                                Append(x.taken, g), Append(acc, x.stamp)) :
                         x \in stamps, g \in TimeDraws }

\* points.sort(key=lambda p: p.timestamp): a stable sort, by insertion.
RECURSIVE InsertPoint(_, _)
InsertPoint(sorted, pt) ==
    IF sorted = << >> THEN << pt >>
    ELSE IF sorted[Len(sorted)].timestamp <= pt.timestamp
    THEN Append(sorted, pt)
    ELSE Append(InsertPoint(SubSeq(sorted, 1, Len(sorted) - 1), pt),
                sorted[Len(sorted)])

RECURSIVE SortByTime(_)
SortByTime(points) ==
    IF points = << >> THEN << >>
    ELSE InsertPoint(SortByTime(SubSeq(points, 1, Len(points) - 1)),
                     points[Len(points)])

\* What the OSRM request of snap_to_road meets: a 200 answer with a
\* waypoint, another status, an answer without waypoints, or an exception
\* (timeout, network error, malformed answer).
SnapResponses == { "snapped", "status", "no_waypoints", "exception" }
NoneSnapped == [k \in 1..5 |-> "exception"]
AllSnapped == [k \in 1..5 |-> "snapped"]
SomeSnapped == << "snapped", "status", "no_waypoints", "exception", "snapped" >>
SnapPatterns == { NoneSnapped, AllSnapped, SomeSnapped }

\* waypoints[0]["location"]: a point of a road near the coordinate.
Nearest(coord) == [lat |-> coord.lat + 1, lon |-> coord.lon - 1]

\* A snap_to_road without its except clause: the exception leaves it.
snap_to_road_unguarded(coord, response) ==
    [raises |-> response = "exception",
     coord |-> IF response = "snapped" THEN Nearest(coord) ELSE coord]

\* snap_to_road: the snapped location, or the coordinate as it came on a
\* status other than 200, on missing waypoints and on any exception.
snap_to_road(coord, response) ==
    [raises |-> FALSE,
     coord |-> IF response = "snapped" THEN Nearest(coord) ELSE coord]

\* What generate_static_map does: geo.py returns the bytes or raises
\* (raise_for_status, timeout, network error); the single-file bot returns
\* the bytes, or None when the key is missing or anything fails.
MapOutcomes == { "bytes", "raised" }
MapOutcomesSingleFile == { "bytes", "None" }

NoStream == [offsets |-> 0, times |-> << >>]
NoGen == [active |-> FALSE]

\* ------------------------------------------------------------ handler
Running == { "c_ttl", "c_db", "c_set", "c_get",
             "i_incr", "i_expire", "h_commit", "h_track" }
Ended == { "idle", "denied", "done", "raised_redis", "raised_db", "cancelled",
           "invalid", "raised_value" }

\* Texts of the messages that users send: the test IMEI, the same between
\* blanks, a short number, a letter among the digits, a wrong check digit
\* and a superscript digit.
MessageTexts ==
    { TestImei,
      << Blank >> \o TestImei \o << Blank >>,
      SubSeq(TestImei, 1, 5),
      SubSeq(TestImei, 1, 14) \o << LetterX >>,
      SubSeq(TestImei, 1, 14) \o << 57 >>,
      SubSeq(TestImei, 1, 14) \o << SuperscriptTwo >> }
PcValues == Running \union Ended

NumInFlight == Cardinality({ p \in Procs : pc[p] \in Running })

InitBot ==
    /\ received = 0
    /\ clock = 1
    /\ redis = [u \in Users |-> NoKey]
    /\ users = {}
    /\ queries = EmptyBag
    /\ pc = [p \in Procs |-> "idle"]
    /\ user = [p \in Procs |-> 1]
    /\ today_start = [p \in Procs |-> 0]
    /\ count_today = [p \in Procs |-> 0]
    /\ remaining = [p \in Procs |-> 0]
    /\ reset_in = [p \in Procs |-> 0]
    /\ allowed = [p \in Procs |-> FALSE]
    /\ h_imei = [p \in Procs |-> << >>]
    /\ cache = {}

\* No helper function is under examination.
NoImeiCall == text = << >> /\ verdict = "none"

NoTimeCall == dt = << >> /\ seed = << >> /\ seconds_left = NoSecs

NoTrackCall ==
    /\ hmac = << >>
    /\ rng = [d \in DigestSamples |-> NoStream]
    /\ gen = NoGen
    /\ tracks = << >>
    /\ bases = {}
    /\ raised = << >>

\* rate_limit_state = {}: no user has an entry.
NoEntry == [date |-> NoSeed, count |-> 0]
NoSingleFile ==
    /\ rate_limit_state = [u \in Users |-> NoEntry]
    /\ checked = << >>

Init == InitBot /\ NoImeiCall /\ NoTimeCall /\ NoTrackCall /\ NoSingleFile

\* The frame of the previous run of p is gone when p starts again.
Fresh(f, p, v) == [f EXCEPT ![p] = v]

\* A handler that skips the validation: every text goes on to the limiter.
ReceiveUnvalidated(p, u, msg) ==
    /\ pc[p] \in Ended
    /\ received < MaxEvents
    /\ received' = received + 1
    /\ pc' = [pc EXCEPT ![p] = "c_ttl"]
    /\ user' = [user EXCEPT ![p] = u]
    /\ users' = users \union {u}
    /\ today_start' = Fresh(today_start, p, 0)
    /\ count_today' = Fresh(count_today, p, 0)
    /\ remaining' = Fresh(remaining, p, 0)
    /\ reset_in' = Fresh(reset_in, p, 0)
    /\ allowed' = Fresh(allowed, p, FALSE)
    /\ h_imei' = Fresh(h_imei, p, strip(msg))
    /\ UNCHANGED << clock, redis, queries, cache >>
    /\ UNCHANGED pure

\* A text message of user u starts handler p.  The stripped text is
\* validated first: a text that is not a valid IMEI is answered and the
\* handler returns (or is_valid_imei raises).  For a valid one the handler
\* runs up to the end of ensure_user (db.get, and db.add + commit for a
\* new user).
Receive(p, u, msg) ==
    /\ pc[p] \in Ended
    /\ received < MaxEvents
    /\ received' = received + 1
    /\ LET v == is_valid_imei(strip(msg)) IN
        IF v = "True"
        THEN /\ pc' = [pc EXCEPT ![p] = "c_ttl"]
             /\ user' = [user EXCEPT ![p] = u]
             /\ users' = users \union {u}
             /\ h_imei' = Fresh(h_imei, p, strip(msg))
        ELSE /\ pc' = [pc EXCEPT ![p] =
                          IF v = "False" THEN "invalid" ELSE "raised_value"]
             /\ user' = [user EXCEPT ![p] = 1]
             /\ users' = users
             /\ h_imei' = Fresh(h_imei, p, << >>)
    /\ today_start' = Fresh(today_start, p, 0)
    /\ count_today' = Fresh(count_today, p, 0)
    /\ remaining' = Fresh(remaining, p, 0)
    /\ reset_in' = Fresh(reset_in, p, 0)
    /\ allowed' = Fresh(allowed, p, FALSE)
    /\ UNCHANGED << clock, redis, queries, cache >>
    /\ UNCHANGED pure

\* check_rate_limit: ttl = await redis.ttl(key); on -2 the backfill branch
\* reads the clock for today_start before it awaits the database.
CheckTtl(p) ==
    /\ pc[p] = "c_ttl"
    /\ IF RedisTtl(redis[user[p]], utc_now) = 0 - 2
       THEN /\ today_start' = [today_start EXCEPT ![p] = DayStart(utc_now)]
            /\ pc' = [pc EXCEPT ![p] = "c_db"]
       ELSE /\ today_start' = today_start
            /\ pc' = [pc EXCEPT ![p] = "c_get"]
    /\ UNCHANGED << env, stores, user, count_today, status, h_imei >>
    /\ UNCHANGED pure

\* result = await db.execute(stmt); then remaining and reset_in.
CheckBackfillCount(p) ==
    /\ pc[p] = "c_db"
    /\ LET c == CountSince(queries, user[p], today_start[p]) IN
        /\ count_today' = [count_today EXCEPT ![p] = c]
        /\ remaining' = [remaining EXCEPT ![p] = Max(0, DAILY_LIMIT - c)]
    /\ reset_in' = [reset_in EXCEPT ![p] = seconds_until_midnight_utc(utc_now)]
    /\ today_start' = [today_start EXCEPT ![p] = 0]
    /\ pc' = [pc EXCEPT ![p] = "c_set"]
    /\ UNCHANGED << env, stores, user, allowed, h_imei >>
    /\ UNCHANGED pure

\* A handler that ignores the decision and goes on to consume.
DecideAdmitsAll(rem) == "i_incr"

\* What the handler does with the status that check_rate_limit returns:
\* a denied request is answered with the wait and the handler returns.
Decide(rem) == IF rem > 0 THEN "i_incr" ELSE "denied"

\* await redis.set(key, count_today, ex=reset_in); return the status.
CheckBackfillSet(p) ==
    /\ pc[p] = "c_set"
    /\ IF RedisSetOk(reset_in[p])
       THEN /\ redis' = [redis EXCEPT ![user[p]] =
                            RedisSet(count_today[p], reset_in[p], utc_now)]
            /\ allowed' = [allowed EXCEPT ![p] = remaining[p] > 0]
            /\ pc' = [pc EXCEPT ![p] = Decide(remaining[p])]
            /\ UNCHANGED << remaining, reset_in >>
            /\ user' = user
       ELSE /\ pc' = [pc EXCEPT ![p] = "raised_redis"]
            /\ remaining' = [remaining EXCEPT ![p] = 0]
            /\ reset_in' = [reset_in EXCEPT ![p] = 0]
            /\ user' = [user EXCEPT ![p] = 1]
            /\ UNCHANGED << redis, allowed >>
    /\ count_today' = [count_today EXCEPT ![p] = 0]
    /\ UNCHANGED << env, users, queries, cache, today_start, h_imei >>
    /\ UNCHANGED pure

\* A check that charges: the fast path counts the call with INCR instead of
\* reading the counter with GET.
CheckReadCharging(p) ==
    /\ pc[p] = "c_get"
    /\ LET r == RedisIncr(redis[user[p]], utc_now)
           rem == Max(0, DAILY_LIMIT - r.val) IN
        /\ redis' = [redis EXCEPT ![user[p]] = r]
        /\ remaining' = [remaining EXCEPT ![p] = rem]
        /\ allowed' = [allowed EXCEPT ![p] = rem > 0]
        /\ pc' = [pc EXCEPT ![p] = Decide(rem)]
    /\ reset_in' = [reset_in EXCEPT ![p] = seconds_until_midnight_utc(utc_now)]
    /\ UNCHANGED << env, users, queries, cache, user, today_start,
                    count_today, h_imei >>
    /\ UNCHANGED pure

\* val = await redis.get(key); count_today = int(val) if val is not None else 0
CheckRead(p) ==
    /\ pc[p] = "c_get"
    /\ LET r == redis[user[p]]
           c == IF Live(r, utc_now) THEN r.val ELSE 0
           rem == Max(0, DAILY_LIMIT - c) IN
        /\ remaining' = [remaining EXCEPT ![p] = rem]
        /\ allowed' = [allowed EXCEPT ![p] = rem > 0]
        /\ pc' = [pc EXCEPT ![p] = Decide(rem)]
    /\ reset_in' = [reset_in EXCEPT ![p] = seconds_until_midnight_utc(utc_now)]
    /\ UNCHANGED << env, stores, user, today_start, count_today, h_imei >>
    /\ UNCHANGED pure

\* increment_rate_limit: current = await redis.incr(key); the expire call
\* follows only when current == 1.  Of the status only the decision is kept
\* from this point on.
Incr(p) ==
    /\ pc[p] = "i_incr"
    /\ LET r == RedisIncr(redis[user[p]], utc_now) IN
        /\ redis' = [redis EXCEPT ![user[p]] = r]
        /\ pc' = [pc EXCEPT ![p] = IF r.val = 1 THEN "i_expire" ELSE "h_commit"]
    /\ remaining' = [remaining EXCEPT ![p] = 0]
    /\ reset_in' = [reset_in EXCEPT ![p] = 0]
    /\ UNCHANGED << env, users, queries, cache, user, today_start,
                    count_today, allowed, h_imei >>
    /\ UNCHANGED pure

\* await redis.expire(key, seconds_until_midnight_utc())
Expire(p) ==
    /\ pc[p] = "i_expire"
    /\ redis' = [redis EXCEPT ![user[p]] =
                    RedisExpire(redis[user[p]],
                                seconds_until_midnight_utc(utc_now), utc_now)]
    /\ pc' = [pc EXCEPT ![p] = "h_commit"]
    /\ UNCHANGED << env, users, queries, cache, locals >>
    /\ UNCHANGED pure

\* db.add(IMEIQuery(user_id, imei_prefix)); await db.commit()
Commit(p) ==
    /\ pc[p] = "h_commit"
    /\ queries' = Insert(queries, Row(user[p], mask_imei(h_imei[p]), utc_now))
    /\ pc' = [pc EXCEPT ![p] = "h_track"]
    /\ UNCHANGED << env, redis, users, cache, locals >>
    /\ UNCHANGED pure

\* The rest of the handler: the track is generated, the cache marker of
\* the IMEI is set for an hour and the track is sent.
Generate(p) ==
    /\ pc[p] = "h_track"
    /\ cache' = CacheSet(cache, CacheKey(h_imei[p]), utc_now)
    /\ pc' = [pc EXCEPT ![p] = "done"]
    /\ user' = [user EXCEPT ![p] = 1]
    /\ allowed' = [allowed EXCEPT ![p] = FALSE]
    /\ UNCHANGED << env, redis, users, queries, today_start, count_today,
                    remaining, reset_in, h_imei >>
    /\ UNCHANGED pure

\* An exception leaves the handler: its frame is dropped.
Abort(p, how) ==
    /\ pc' = [pc EXCEPT ![p] = how]
    /\ today_start' = [today_start EXCEPT ![p] = 0]
    /\ count_today' = [count_today EXCEPT ![p] = 0]
    /\ remaining' = [remaining EXCEPT ![p] = 0]
    /\ reset_in' = [reset_in EXCEPT ![p] = 0]
    /\ allowed' = [allowed EXCEPT ![p] = FALSE]
    /\ user' = [user EXCEPT ![p] = 1]
    /\ UNCHANGED << env, stores, h_imei >>
    /\ UNCHANGED pure

\* Redis is unreachable: the awaited command raises, nothing catches it.
RedisError(p) ==
    /\ pc[p] \in { "c_ttl", "c_set", "c_get", "i_incr", "i_expire" }
    /\ Abort(p, "raised_redis")

\* A backfill that swallows the failure of the count query and goes on as
\* if the user had no event today.
DbErrorAssumesZero(p) ==
    /\ pc[p] \in { "c_db", "h_commit" }
    /\ IF pc[p] = "c_db"
       THEN /\ count_today' = [count_today EXCEPT ![p] = 0]
            /\ remaining' = [remaining EXCEPT ![p] = DAILY_LIMIT]
            /\ reset_in' = [reset_in EXCEPT ![p] =
                                seconds_until_midnight_utc(utc_now)]
            /\ today_start' = [today_start EXCEPT ![p] = 0]
            /\ pc' = [pc EXCEPT ![p] = "c_set"]
            /\ UNCHANGED << env, stores, user, allowed, h_imei >>
            /\ UNCHANGED pure
       ELSE Abort(p, "raised_db")

\* PostgreSQL is unreachable: the awaited statement raises.
DbError(p) ==
    /\ pc[p] \in { "c_db", "h_commit" }
    /\ Abort(p, "raised_db")

\* The task is cancelled while it is suspended in an await.
Cancel(p) ==
    /\ pc[p] \in Running
    /\ Abort(p, "cancelled")

\* Time passes; Redis drops the keys whose expiry time is reached.
Tick ==
    /\ clock < MaxClock
    /\ clock' = clock + 1
    /\ redis' = [u \in Users |-> Purge(redis[u], Instants[clock + 1])]
    /\ cache' = CachePurge(cache, Instants[clock + 1])
    /\ UNCHANGED << received, users, queries, pc, locals >>
    /\ UNCHANGED pure

\* Redis restarts or evicts the key of user u under memory pressure.
Evict(u) ==
    /\ redis[u].exists
    /\ redis' = [redis EXCEPT ![u] = NoKey]
    /\ UNCHANGED << env, users, queries, cache, pc, locals >>
    /\ UNCHANGED pure

\* The steps of a handler that meets no failure.
Step(p) ==
    \/ CheckTtl(p)
    \/ CheckBackfillCount(p)
    \/ CheckBackfillSet(p)
    \/ CheckRead(p)
    \/ Incr(p)
    \/ Expire(p)
    \/ Commit(p)
    \/ Generate(p)

Next ==
    \/ \E p \in Procs, u \in Users, msg \in MessageTexts : Receive(p, u, msg)
    \/ \E p \in Procs : CheckTtl(p)
    \/ \E p \in Procs : CheckBackfillCount(p)
    \/ \E p \in Procs : CheckBackfillSet(p)
    \/ \E p \in Procs : CheckRead(p)
    \/ \E p \in Procs : Incr(p)
    \/ \E p \in Procs : Expire(p)
    \/ \E p \in Procs : Commit(p)
    \/ \E p \in Procs : Generate(p)
    \/ \E p \in Procs : RedisError(p)
    \/ \E p \in Procs : DbError(p)
    \/ \E p \in Procs : Cancel(p)
    \/ \E u \in Users : Evict(u)
    \/ Tick

\* Concurrent handlers, stores that may fail, eviction, passing time.
Spec == Init /\ [][Next]_vars

\* Concurrent handlers with working stores and no eviction: the only way a
\* key disappears is its own expiry.
NextConcurrent ==
    \/ \E p \in Procs, u \in Users, msg \in MessageTexts : Receive(p, u, msg)
    \/ \E p \in Procs : Step(p)
    \/ Tick

SpecConcurrent == Init /\ [][NextConcurrent]_vars

\* The application handles one update at a time (the ApplicationBuilder
\* leaves concurrent_updates off): a message starts a handler only when no
\* other handler is running.  Working stores, no eviction.
NextSequential ==
    \/ \E p \in Procs, u \in Users, msg \in MessageTexts :
          NumInFlight = 0 /\ Receive(p, u, msg)
    \/ \E p \in Procs : Step(p)
    \/ Tick

SpecSequential == Init /\ [][NextSequential]_vars

\* One update at a time and working stores, while Redis may evict the
\* counter key at any point, also between the steps of a handler.
NextEvicting ==
    \/ NextSequential
    \/ \E u \in Users : Evict(u)

SpecEvicting == Init /\ [][NextEvicting]_vars

\* is_valid_imei on its own: one call on each examined text.
InitImei ==
    /\ InitBot /\ NoTimeCall /\ NoTrackCall /\ NoSingleFile
    /\ text \in Texts
    /\ verdict = "none"

Validate ==
    /\ verdict = "none"
    /\ verdict' = is_valid_imei(text)
    /\ UNCHANGED << bot, singleFile, text, timeCall, trackCall >>

NextImei == Validate

SpecImei == InitImei /\ [][NextImei]_vars

\* The helpers of time on their own: _daily_seed on two datetimes, and
\* seconds_until_midnight_utc when utc_now() is the instant of the first.
InitTime ==
    /\ InitBot /\ NoImeiCall /\ NoTrackCall /\ NoSingleFile
    /\ dt \in [1..2 -> Datetimes]
    /\ seed = [i \in 1..2 |-> NoSeed]
    /\ seconds_left = NoSecs

DailySeed(i) ==
    /\ seed[i] = NoSeed
    /\ seed' = [seed EXCEPT ![i] = _daily_seed(dt[i])]
    /\ UNCHANGED << bot, singleFile, imeiCall, trackCall, dt, seconds_left >>

SecondsUntilMidnight ==
    /\ seconds_left = NoSecs
    /\ seconds_left' = seconds_until_midnight_utc(dt[1].utc)
    /\ UNCHANGED << bot, singleFile, imeiCall, trackCall, dt, seed >>

NextTime ==
    \/ \E i \in 1..2 : DailySeed(i)
    \/ SecondsUntilMidnight

SpecTime == InitTime /\ [][NextTime]_vars

\* The track engine on its own: generate_fake_track is called for the test
\* IMEI at the instants of the clock, _hash_to_base_coord is also called
\* directly, and time passes.
InitTrack == Init

\* A digest that depends on more than key and message: any digest, also for
\* a message hashed before.
HashedAnew(msg, d) == TRUE

\* The digest of a message: the one computed before, or any for a new one.
Hashed(msg, d) == msg \in DOMAIN hmac => d = hmac[msg]

\* _hash_to_base_coord(imei, seed) called directly, with today's seed.
HashToBaseCoord(imei) ==
    LET seed_str == _daily_seed(Datetime(utc_now, 0))
        msg == Message(imei, seed_str)
    IN  \E d \in DigestSamples :
            /\ Hashed(msg, d)
            /\ hmac' = (msg :> d) @@ hmac
            /\ bases' = bases \union
                   { [imei |-> imei, seed |-> seed_str,
                      coord |-> _hash_to_base_coord(d)] }
            /\ UNCHANGED << bot, singleFile, imeiCall, timeCall, rng, gen,
                            tracks, raised >>

\* generate_fake_track up to its first await: now, the seed, the base
\* coordinate, the generator, the five coordinates and the first time.
TrackBegin ==
    /\ ~gen.active
    /\ Len(tracks) + Len(raised) < MaxTracks
    /\ LET now == utc_now
           seed_str == _daily_seed(Datetime(now, 0))
           msg == Message(TestImei, seed_str)
       IN  \E d \in DigestSamples, o \in 1..Len(OffsetStreams), u \in TimeDraws :
               /\ Hashed(msg, d)
               /\ rng[d] # NoStream =>
                      o = rng[d].offsets /\ u = rng[d].times[1]
               /\ hmac' = (msg :> d) @@ hmac
               /\ bases' = bases \union
                      { [imei |-> TestImei, seed |-> seed_str,
                         coord |-> _hash_to_base_coord(d)] }
               /\ rng' = [rng EXCEPT ![d] =
                              IF rng[d] = NoStream
                              THEN [offsets |-> o, times |-> << u >>]
                              ELSE rng[d]]
               /\ gen' = [active |-> TRUE, imei |-> TestImei, now |-> now,
                          seed |-> seed_str, digest |-> d,
                          coords |-> Coords(_hash_to_base_coord(d),
                                            OffsetStreams[o]),
                          current_time |-> (now - MsPerDay) + FirstOffset(u)]
    /\ UNCHANGED << bot, singleFile, imeiCall, timeCall, tracks, raised >>

\* The rest of generate_fake_track, with the responses snaps of OSRM and
\* the outcome png of generate_static_map: the five awaits of snap_to_road,
\* the timestamps, the sort, the map over the sorted points, the result.
\* An exception that leaves snap_to_road or generate_static_map leaves
\* generate_fake_track as well.
GenerateFakeTrack(snaps, png) ==
    /\ gen.active
    /\ LET snapped == [k \in 1..5 |-> snap_to_road(gen.coords[k], snaps[k])]
           failure == [imei |-> gen.imei, now |-> gen.now]
       IN  IF \E k \in 1..5 : snapped[k].raises
           THEN /\ raised' = Append(raised, failure @@ [error |-> "snap"])
                /\ UNCHANGED << rng, tracks >>
           ELSE \E loop \in Timestamps(1, gen.current_time, gen.now, << >>, << >>) :
                  LET d == gen.digest
                      drawn == Tail(rng[d].times)
                      points == [k \in 1..5 |-> [timestamp |-> loop.times[k],
                                                 coord |-> snapped[k].coord]]
                      sorted == SortByTime(points)
                  IN  /\ drawn # << >> => loop.taken = drawn
                      /\ rng' = [rng EXCEPT ![d].times =
                                        << rng[d].times[1] >> \o loop.taken]
                      /\ IF png = "raised"
                         THEN /\ raised' = Append(raised,
                                                failure @@ [error |-> "map"])
                              /\ tracks' = tracks
                         ELSE /\ tracks' = Append(tracks,
                                     [engine |-> "package",
                                      imei |-> gen.imei, now |-> gen.now,
                                      seed |-> gen.seed, points |-> sorted,
                                      generated |-> gen.coords,
                                      snaps |-> snaps,
                                      rendered |-> [k \in 1..5 |->
                                                       sorted[k].coord],
                                      map_png |-> png])
                              /\ raised' = raised
    /\ gen' = NoGen
    /\ UNCHANGED << bot, singleFile, imeiCall, timeCall, hmac, bases >>

\* generate_fake_track ends while OSRM cannot be reached and the map
\* service answers: the coordinates are kept as generated.
TrackFinish == GenerateFakeTrack(NoneSnapped, "bytes")

\* generate_fake_track ends with all or some of the points snapped.
TrackSnapped ==
    \E snaps \in SnapPatterns \ {NoneSnapped} : GenerateFakeTrack(snaps, "bytes")

\* generate_fake_track ends in the exception of generate_static_map.
TrackMapFails ==
    \E snaps \in SnapPatterns : GenerateFakeTrack(snaps, "raised")

\* The rest of fake_track of the single-file bot (src/bot.py), whose first
\* part is the code of TrackBegin: no snapping, the timestamps, the map
\* over the points in the order of the loop, then the sort, the result.
FakeTrackFinish ==
    /\ gen.active
    /\ \E loop \in Timestamps(1, gen.current_time, gen.now, << >>, << >>),
          png \in MapOutcomesSingleFile :
          LET d == gen.digest
              drawn == Tail(rng[d].times)
              points == [k \in 1..5 |-> [timestamp |-> loop.times[k],
                                         coord |-> gen.coords[k]]]
          IN  /\ drawn # << >> => loop.taken = drawn
              /\ rng' = [rng EXCEPT ![d].times =
                                        << rng[d].times[1] >> \o loop.taken]
              /\ tracks' = Append(tracks,
                     [engine |-> "single_file",
                      imei |-> gen.imei, now |-> gen.now, seed |-> gen.seed,
                      points |-> SortByTime(points),
                      generated |-> gen.coords,
                      snaps |-> NoneSnapped,
                      rendered |-> [k \in 1..5 |-> points[k].coord],
                      map_png |-> png])
    /\ gen' = NoGen
    /\ UNCHANGED << bot, singleFile, imeiCall, timeCall, hmac, bases,
                    raised >>

NextTrack ==
    \/ \E imei \in Imeis : HashToBaseCoord(imei)
    \/ TrackBegin
    \/ TrackFinish
    \/ Tick

SpecTrack == InitTrack /\ [][NextTrack]_vars

\* Track generation with its collaborators, at one instant: the responses
\* of OSRM and of the map service vary from call to call, in the package
\* and in the single-file bot.
NextCollab ==
    \/ TrackBegin
    \/ TrackFinish
    \/ TrackSnapped
    \/ TrackMapFails
    \/ FakeTrackFinish

SpecCollab == InitTrack /\ [][NextCollab]_vars

\* ------------------------------------------------------------ single-file bot
\* src/bot.py keeps the quota in the dictionary rate_limit_state.
\* An entry that counts for nothing: one that is set whenever it is missing,
\* whatever its date.
StaleIfMissing(entry, today) == entry = NoEntry

\* if entry is None or entry["date"] != today
Stale(entry, today) == entry = NoEntry \/ entry.date # today

\* check_rate_limit(user_id): the new dictionary and the result.  The
\* function has no await: it runs from its first line to its return
\* without another handler in between.
check_rate_limit(state, u, t) ==
    LET today == _daily_seed(Datetime(t, 0))
        entry == IF Stale(state[u], today)
                 THEN [date |-> today, count |-> 0]
                 ELSE state[u]
    IN  IF entry.count >= 3
        THEN [state |-> [state EXCEPT ![u] = entry],
              allowed |-> FALSE,
              reset_seconds |-> seconds_until_midnight_utc(t)]
        ELSE [state |-> [state EXCEPT ![u] = [entry EXCEPT !.count = @ + 1]],
              allowed |-> TRUE,
              reset_seconds |-> seconds_until_midnight_utc(t)]

\* handle_text up to its first await: the text is validated, the limiter
\* is asked, and the answer (invalid, limit reached, searching) is sent.
HandleText(p, u, msg) ==
    /\ pc[p] \in Ended
    /\ received < MaxTexts
    /\ received' = received + 1
    /\ LET v == is_valid_imei(strip(msg))
           res == check_rate_limit(rate_limit_state, u, utc_now)
       IN  IF v = "True"
           THEN /\ rate_limit_state' = res.state
                /\ checked' = Append(checked,
                       [user_id |-> u, at |-> utc_now,
                        allowed |-> res.allowed,
                        reset_seconds |-> res.reset_seconds])
                /\ pc' = [pc EXCEPT ![p] =
                              IF res.allowed THEN "h_track" ELSE "denied"]
           ELSE /\ pc' = [pc EXCEPT ![p] =
                              IF v = "False" THEN "invalid" ELSE "raised_value"]
                /\ UNCHANGED singleFile
    /\ UNCHANGED << clock, stores, locals, imeiCall, timeCall, trackCall >>

\* The rest of handle_text: the pause, fake_track and the reply.
HandleTextEnd(p) ==
    /\ pc[p] = "h_track"
    /\ pc' = [pc EXCEPT ![p] = "done"]
    /\ UNCHANGED << env, stores, locals, pure >>

NextSingleFile ==
    \/ \E p \in Procs, u \in Users, msg \in MessageTexts : HandleText(p, u, msg)
    \/ \E p \in Procs : HandleTextEnd(p)
    \/ Tick

SpecSingleFile == Init /\ [][NextSingleFile]_vars

TypeOK ==
    /\ received \in 0..MaxEvents
    /\ clock \in 1..Len(Instants)
    /\ \A u \in Users : redis[u].val \in Nat
    /\ users \subseteq Users
    /\ \A p \in Procs : pc[p] \in PcValues

\* ------------------------------------------------------------ claims
\* The counter a reader of the fast store sees for user u.
Counter(u) == IF Live(redis[u], utc_now) THEN redis[u].val ELSE 0

DayStarts == { DayStart(Instants[i]) : i \in 1..Len(Instants) }

\* Consumption events of user u recorded within the UTC day that starts at d.
EventsInDay(u, d) ==
    CountSince(queries, u, d) - CountSince(queries, u, d + MsPerDay)

\* Events of u in the epoch of the current instant.
EventsToday(u) == CountSince(queries, u, DayStart(utc_now))

\* C1: under any interleaving of handlers that consume only after check
\* allowed, no identity gets more than DAILY_LIMIT consumption events in one
\* epoch, and the counter never exceeds DAILY_LIMIT.
C1_AdmittedWithinLimit ==
    \A u \in Users :
        /\ Counter(u) <= DAILY_LIMIT
        /\ \A d \in DayStarts : EventsInDay(u, d) <= DAILY_LIMIT

\* C2: for a fresh identity and strictly sequential calls, every check
\* returns a status: with k consumes done in the epoch it has remaining
\* 3 - k and allowed for k < 3, and the check after the third consume is
\* denied with remaining 0 and reset_in_seconds > 0.
C2_FreshSequentialQuota ==
    [][\A p \in Procs :
        (CheckBackfillSet(p) \/ CheckRead(p)) =>
            LET k == EventsToday(user[p]) IN
                /\ pc'[p] \in {"i_incr", "denied"}
                /\ remaining'[p] = Max(0, DAILY_LIMIT - k)
                /\ allowed'[p] = (k < DAILY_LIMIT)
                /\ (k >= DAILY_LIMIT => reset_in'[p] > 0)]_vars

\* C3: when the key is absent and the durable store holds k events of the
\* identity in the current epoch, the check reports remaining
\* max(0, DAILY_LIMIT - k) and initializes the counter to k.
C3_BackfillConsistent ==
    [][\A p \in Procs :
        /\ CheckBackfillCount(p) =>
              remaining'[p] = Max(0, DAILY_LIMIT - EventsToday(user[p]))
        /\ CheckBackfillSet(p) =>
              /\ Live(redis'[user[p]], utc_now)
              /\ redis'[user[p]].val = count_today[p]]_vars

\* C4: the initialization of the counter by the backfill path is a
\* set-only-if-absent: it leaves a key that exists as it is.
C4_SetOnlyIfAbsent ==
    [][\A p \in Procs :
        (CheckBackfillSet(p) /\ Live(redis[user[p]], utc_now)) =>
            redis'[user[p]] = redis[user[p]]]_vars

\* C5: no lost updates: every consume adds exactly one to the counter (the
\* increment adds one, the expire call that may follow leaves the value) and
\* exactly one event to the durable store, in any interleaving.
C5_NoLostUpdates ==
    [][\A p \in Procs :
        LET u == user[p] IN
            /\ Incr(p) => Counter(u)' = Counter(u) + 1
            /\ Expire(p) => Counter(u)' = Counter(u)
            /\ Commit(p) =>
                  CountSince(queries', u, 0) = CountSince(queries, u, 0) + 1]_vars

\* The consumed count that a check made now would report for user u.
Reported(u) ==
    IF Live(redis[u], utc_now) THEN redis[u].val ELSE EventsToday(u)

\* C6: within one epoch the consumed count that check reports for an
\* identity never decreases.
C6_CountNeverDecreases ==
    [][\A u \in Users :
        DayStart(utc_now') = DayStart(utc_now) =>
            Reported(u)' >= Reported(u)]_vars

\* A step of check_rate_limit made by handler p.
CheckStep(p) ==
    CheckTtl(p) \/ CheckBackfillCount(p) \/ CheckBackfillSet(p) \/ CheckRead(p)

C8_CounterHasExpiry ==
    \A u \in Users : redis[u].exists => redis[u].expireAt # NoExpiry

C10_FallbackToDurable ==
    [][\A p \in Procs :
        RedisError(p) =>
            /\ pc[p] \in {"c_ttl", "c_get", "c_set"} =>
                  pc'[p] = Decide(Max(0, DAILY_LIMIT - EventsToday(user[p])))
            /\ pc[p] \in {"i_incr", "i_expire"} => pc'[p] = "h_commit"]_vars

\* The k-th digit of s counted from the right, k = 0 for the last one.
DigitFromRight(s, k) == s[Len(s) - k] - 48

\* The Luhn sum computed by hand over the positions 0 .. n - 1.
RECURSIVE ManualLuhn(_, _)
ManualLuhn(s, n) ==
    IF n = 0 THEN 0
    ELSE LET d == DigitFromRight(s, n - 1)
             dd == IF 2 * d > 9 THEN 2 * d - 9 ELSE 2 * d
         IN  ManualLuhn(s, n - 1) + (IF (n - 1) % 2 = 1 THEN dd ELSE d)

ManualValid(s) ==
    /\ Len(s) = 15
    /\ \A k \in 1..Len(s) : s[k] \in AsciiDigits
    /\ ManualLuhn(s, 15) % 10 = 0

\* C11: is_valid_imei(s) returns true exactly when s has 15 characters, all
\* decimal digits 0-9, with a Luhn sum divisible by 10, and returns false
\* for every other string.
C11_MatchesManualLuhn ==
    verdict # "none" =>
        verdict = (IF ManualValid(text) THEN "True" ELSE "False")

\* C12: is_valid_imei is total: every call returns a boolean, none raises.
C12_Total == verdict \in {"none", "True", "False"}

\* C13: a message whose text fails the validation never reaches the limiter
\* or the generator: its handler ends at once, no check, no increment, no
\* durable event, and the consumed count of the user is unchanged.
C13_InvalidNeverReachesLimiter ==
    [][\A p \in Procs, u \in Users, msg \in MessageTexts :
        (Receive(p, u, msg) /\ is_valid_imei(strip(msg)) # "True") =>
            /\ pc'[p] \in {"invalid", "raised_value"}
            /\ stores' = stores
            /\ Reported(u)' = Reported(u)]_vars

\* A user with one recorded event sent a text that is not an IMEI: the
\* handler ended as invalid, the counter and the log still show one event.
C13_Witness ==
    /\ \E p \in Procs : pc[p] = "invalid"
    /\ NumRows(queries) = 1
    /\ Counter(1) = 1

\* Positions of a handler whose request was admitted.
Admitted == { "i_incr", "i_expire", "h_commit", "h_track" }

\* Values that reset_in_seconds can have been given so far.
ResetTimes == { seconds_until_midnight_utc(Instants[i]) : i \in 1..clock }

\* C14: admission precedes generation: a handler consumes, records and
\* generates only after the check of its own request returned allowed; a
\* request that check denies consumes nothing, records nothing, generates
\* nothing and is answered with the time until the reset.
C14_AdmissionPrecedesGeneration ==
    [][\A p \in Procs :
        /\ pc'[p] \in Admitted => allowed'[p]
        /\ Generate(p) => allowed[p]
        /\ (pc'[p] = "i_incr" /\ pc[p] # "i_incr") =>
              /\ CheckBackfillSet(p) \/ CheckRead(p)
              /\ remaining'[p] > 0
        /\ (pc'[p] = "denied" /\ pc[p] # "denied") =>
              /\ CheckBackfillSet(p) \/ CheckRead(p)
              /\ ~allowed'[p]
              /\ queries' = queries
              /\ \/ redis' = redis
                 \/ redis'[user[p]].val = count_today[p]
              /\ reset_in'[p] \in ResetTimes
        /\ pc[p] = "denied" =>
              \/ pc'[p] = "denied"
              \/ \E u \in Users, msg \in MessageTexts : Receive(p, u, msg)]_vars

\* The fourth request of the day was denied after three were served.
C14_Witness ==
    /\ \E p \in Procs : pc[p] = "denied" /\ reset_in[p] > 0
    /\ NumRows(queries) = DAILY_LIMIT

\* The UTC calendar day of the instant that a datetime denotes.
UtcDay(d) == d.utc \div MsPerDay

\* C15: _daily_seed gives two datetimes the same label exactly when their
\* instants fall on the same UTC day, whatever tzinfo they carry.
C15_LabelIsUtcDate ==
    (seed[1] # NoSeed /\ seed[2] # NoSeed) =>
        ((seed[1] = seed[2]) <=> (UtcDay(dt[1]) = UtcDay(dt[2])))

\* The first UTC midnight strictly after the instant t.
Midnights == { day * MsPerDay : day \in 0..(NumDays + 1) }
NextMidnight(t) ==
    CHOOSE m \in Midnights :
        m > t /\ \A n \in Midnights : n > t => m <= n

\* C16: seconds_until_midnight_utc returns the whole seconds, not negative,
\* from the instant to the next UTC midnight strictly after it: one full day
\* (86400) at an instant that is itself a midnight, never 0 there.
C16_SecondsToNextMidnight ==
    seconds_left # NoSecs =>
        LET t == dt[1].utc IN
            /\ seconds_left \in 0..86400
            /\ seconds_left * 1000 <= NextMidnight(t) - t
            /\ NextMidnight(t) - t < (seconds_left + 1) * 1000
            /\ (t % MsPerDay = 0 => seconds_left = 86400)

\* The countdown was asked exactly at 00:00:00.000 UTC and gave one day.
C16_Witness ==
    /\ seconds_left = 86400
    /\ dt # << >>
    /\ dt[1].utc % MsPerDay = 0

TimesOf(track) == [k \in 1..Len(track.points) |-> track.points[k].timestamp]
CoordsOf(track) == [k \in 1..Len(track.points) |-> track.points[k].coord]

\* C17: every returned track has exactly 5 points, with timestamps in
\* non-decreasing order that are all <= the now of the call.
C17_TrackWellFormed ==
    \A i \in 1..Len(tracks) :
        LET ts == TimesOf(tracks[i]) IN
            /\ Len(ts) = 5
            /\ \A k \in 1..4 : ts[k] <= ts[k + 1]
            /\ \A k \in 1..5 : ts[k] <= tracks[i].now

\* A track whose fifth time ran past now and was pulled back onto it.
C17_Witness ==
    \E i \in 1..Len(tracks) :
        /\ TimesOf(tracks[i])[5] = tracks[i].now
        /\ TimesOf(tracks[i])[4] < tracks[i].now

InRange(coord) ==
    /\ 0 - 85000 <= coord.lat /\ coord.lat <= 85000
    /\ 0 - 180000 <= coord.lon /\ coord.lon <= 180000

\* C18: every coordinate of every track point, base plus offset, has its
\* latitude in [-85, 85] and its longitude in [-180, 180].
C18_PointsInRange ==
    \A i \in 1..Len(tracks) :
        \A k \in 1..Len(tracks[i].points) : InRange(tracks[i].points[k].coord)

\* C19: two tracks of one identifier generated under one epoch label have
\* the same coordinate sequence and the same timestamp sequence.
C19_SameLabelSameTrack ==
    \A i, j \in 1..Len(tracks) :
        (tracks[i].imei = tracks[j].imei /\ tracks[i].seed = tracks[j].seed) =>
            /\ CoordsOf(tracks[i]) = CoordsOf(tracks[j])
            /\ TimesOf(tracks[i]) = TimesOf(tracks[j])

\* C20: the base coordinate is a function of identifier and seed (under the
\* one secret key): all calls with the same arguments returned the same
\* coordinate, whatever was called in between, and every base coordinate
\* has its latitude in [-85, 85] and its longitude in [-180, 180].
C20_BaseCoordIsFunction ==
    /\ \A a, b \in bases :
          (a.imei = b.imei /\ a.seed = b.seed) => a.coord = b.coord
    /\ \A a \in bases : InRange(a.coord)

\* Two tracks of the test IMEI under one seed, a call for the other IMEI,
\* and a base coordinate on the edge of the range.
C20_Witness ==
    /\ Len(tracks) = 2
    /\ tracks[1].seed = tracks[2].seed
    /\ \E a \in bases : a.imei = OtherImei
    /\ \E a \in bases : a.imei = TestImei /\ a.coord.lat = 85000

\* key = f"rate:user:{user_id}:daily" and the decimal string of a count.
RateKey(u) ==
    << 114, 97, 116, 101, 58, 117, 115, 101, 114, 58, 48 + u,
       58, 100, 97, 105, 108, 121 >>
CountString(n) == << 48 + n >>

\* Every string that the fast store and the durable store hold: keys and
\* values of Redis, and the imei_prefix column of imei_queries.
StoredStrings ==
    { c.key : c \in cache } \union { c.val : c \in cache }
        \union { RateKey(u) : u \in { x \in Users : redis[x].exists } }
        \union { CountString(redis[u].val) :
                     u \in { x \in Users : redis[x].exists } }
        \union { r.imei_prefix : r \in DOMAIN queries }

\* The string holds a full identifier: 15 characters in a row that
\* is_valid_imei accepts.
HoldsFullImei(str) ==
    \E k \in 1..(Len(str) - 14) :
        is_valid_imei(SubSeq(str, k, k + 14)) = "True"

\* C21: the full 15-digit identifier is never written to any store: every
\* key and value of the fast store and every row of the durable store holds
\* at most the masked form (8 digits and asterisks) of an identifier.
C21_NoFullImeiStored == \A str \in StoredStrings : ~HoldsFullImei(str)

\* C22: a failure of the map renderer never aborts track generation: no
\* call ends in the renderer's exception, and a track without an image
\* still has its 5 points.
C22_MapFailureKeepsTrack ==
    /\ \A k \in 1..Len(raised) : raised[k].error # "map"
    /\ \A i \in 1..Len(tracks) :
          tracks[i].map_png # "bytes" => Len(tracks[i].points) = 5

\* C23: a failure of the road snapper on any of the 5 points never fails
\* the build: no call ends in an exception of the snapper, every point
\* whose snap failed is in the track with the coordinate that was
\* generated for it, and two tracks of one identifier built at one instant
\* have the same timestamps whatever the snapper did.
C23_SnapFailureKeepsPoint ==
    /\ \A k \in 1..Len(raised) : raised[k].error # "snap"
    /\ \A i \in 1..Len(tracks) :
          \A k \in 1..5 :
              tracks[i].snaps[k] # "snapped" =>
                  tracks[i].points[k].coord = tracks[i].generated[k]
    /\ \A i, j \in 1..Len(tracks) :
          (tracks[i].imei = tracks[j].imei /\ tracks[i].now = tracks[j].now) =>
              TimesOf(tracks[i]) = TimesOf(tracks[j])

\* Two tracks of one call instant: one with some snaps failed by status,
\* missing waypoints and exception, the other with every snap failed or
\* with every snap done.
C23_Witness ==
    /\ Len(tracks) = 2
    /\ tracks[1].snaps = SomeSnapped
    /\ tracks[2].snaps \in { NoneSnapped, AllSnapped }
    /\ tracks[2].engine = "package"
    /\ tracks[1].points[1].coord # tracks[1].generated[1]

\* The UTC day of an instant.
DayOf(t) == t \div MsPerDay

\* The calls of check_rate_limit for the user and in the UTC day of call
\* k that came before call k.
EarlierSameDay(k) ==
    { j \in 1..(k - 1) :
          /\ checked[j].user_id = checked[k].user_id
          /\ DayOf(checked[j].at) = DayOf(checked[k].at) }

\* The calls of check_rate_limit for user u.
CallsOf(u) == { k \in 1..Len(checked) : checked[k].user_id = u }

\* C24: in the single-file bot the count of a user never exceeds 3, exactly
\* the first 3 calls of check_rate_limit of a user in a UTC day are
\* allowed, and the entry of a user always carries the date of the user's
\* latest call with the number of allowed calls of that date: the first
\* call on a later date starts from 0.
C24_ThreeChecksPerDay ==
    /\ \A u \in Users : rate_limit_state[u].count <= 3
    /\ \A k \in 1..Len(checked) :
          checked[k].allowed <=> Cardinality(EarlierSameDay(k)) < 3
    /\ \A u \in Users :
          CallsOf(u) # {} =>
              LET last == CHOOSE k \in CallsOf(u) : \A j \in CallsOf(u) : j <= k
                  sameDay == EarlierSameDay(last) \union {last}
              IN  /\ rate_limit_state[u].date = DayOf(checked[last].at)
                  /\ rate_limit_state[u].count =
                         Cardinality({ j \in sameDay : checked[j].allowed })

\* A user was refused a fourth check on one day and is allowed the first
\* check of the next day while another handler is still running.
C24_Witness ==
    /\ Len(checked) = 5
    /\ ~checked[4].allowed
    /\ checked[5].allowed
    /\ DayOf(checked[5].at) > DayOf(checked[4].at)
    /\ rate_limit_state[1].count = 1
    /\ \E p, q \in Procs : p # q /\ pc[p] = "h_track" /\ pc[q] = "h_track"

\* C25: no counter of an earlier epoch is visible to a check of a new epoch:
\* a check that reports while the durable store has no event of the identity
\* in the epoch of that instant reports remaining = DAILY_LIMIT, whenever
\* the checks and consumes of the epoch before took their steps.
C25_NewEpochStartsFull ==
    [][\A p \in Procs :
        ( /\ CheckBackfillSet(p) \/ CheckRead(p)
          /\ pc'[p] \in {"i_incr", "denied"}
          /\ EventsToday(user[p]) = 0 ) =>
            remaining'[p] = DAILY_LIMIT]_vars

\* C26: with a key that may be evicted at any point, whenever no request
\* is in flight and the counter key of an identity exists, its value is
\* the number of durable events of the identity in the current epoch.
C26_CounterMatchesEvents ==
    NumInFlight = 0 =>
        \A u \in Users :
            Live(redis[u], utc_now) => redis[u].val = EventsToday(u)

\* C27: the coordinate sequence handed to the map renderer is the final
\* order of the track: it lists the coordinates of the returned points,
\* which are in ascending order of their timestamps, one by one.
C27_RenderedInFinalOrder ==
    \A i \in 1..Len(tracks) :
        /\ tracks[i].rendered = CoordsOf(tracks[i])
        /\ \A k \in 1..4 :
              TimesOf(tracks[i])[k] <= TimesOf(tracks[i])[k + 1]

\* A track of the single-file bot, which renders before it sorts, with
\* five different coordinates and a fifth time pulled back by an hour, and
\* a track of the package.
C27_Witness ==
    \E i, j \in 1..Len(tracks) :
        /\ tracks[i].engine = "single_file"
        /\ TimesOf(tracks[i])[5] = tracks[i].now - 60 * MinuteMs
        /\ \A k, l \in 1..5 :
              k # l => tracks[i].rendered[k] # tracks[i].rendered[l]
        /\ tracks[j].engine = "package"

====
